---- MODULE Spec2Model ----
(***************************************************************************)
(* Model of src/aggregation/market_data.py: the MarketData /               *)
(* HistoricalData indicator pipeline (retrieve_data, preprocess_data) and  *)
(* the IntradayData manual iterator (retrieve_data, has_next, next).       *)
(*                                                                         *)
(* Floating point values are modelled exactly: a value is NaN, +/-Inf or   *)
(* n/d + c*sqrt(rn/rd) with integers n, d, c, rn, rd.  Rounding is not     *)
(* modelled.                                                               *)
(***************************************************************************)
EXTENDS Integers, Sequences, FiniteSets

VARIABLES
    cls,             \* the class of the pipeline object
    df,              \* self.df
    processed_data,  \* self.processed_data
    timestamps,      \* self.timestamps
    last,            \* the last call made and the exception it raised, if any
    data,            \* IntradayData: self.data
    index,           \* IntradayData: self.index
    returned         \* the rows next() returned since the last retrieve_data

pipeVars == <<cls, df, processed_data, timestamps>>
iterVars == <<data, index, returned>>
vars == <<cls, df, processed_data, timestamps, last, data, index, returned>>

(***************************************************************************)
(* Bounds of the model and constants of the program.                       *)
(***************************************************************************)
MaxRows == 16
MaxIntradayRows == 5
rolling_window == 10
period == 14
std_multiplier == 2

(***************************************************************************)
(* float64 values, exactly.                                                *)
(***************************************************************************)
Abs(x) == IF x < 0 THEN -x ELSE x

RECURSIVE Gcd(_, _)
Gcd(a, b) == IF b = 0 THEN a ELSE Gcd(b, a % b)

\* n/d in lowest terms with a positive denominator (d # 0).
Num(n, d) ==
    LET g == Gcd(Abs(n), Abs(d))
        s == IF d < 0 THEN -1 ELSE 1
    IN  [k |-> "num", n |-> (s * n) \div g, d |-> (s * d) \div g,
         c |-> 0, rn |-> 0, rd |-> 1]

Int2F(i) == Num(i, 1)
NaN == [k |-> "nan", n |-> 0, d |-> 1, c |-> 0, rn |-> 0, rd |-> 1]
Inf(s) == [k |-> "inf", n |-> s, d |-> 1, c |-> 0, rn |-> 0, rd |-> 1]

IsNaN(x) == x.k = "nan"
IsNum(x) == x.k = "num"
Sign(i) == IF i > 0 THEN 1 ELSE IF i < 0 THEN -1 ELSE 0

\* The sign of n/d + c*sqrt(rn/rd), for a finite value.
SignOf(x) ==
    LET a == Sign(x.n)
        s == Sign(x.c) * Sign(x.rn)
    IN  IF s = 0 THEN a
        ELSE IF a = 0 THEN s
        ELSE IF a = s THEN a
        ELSE \* opposite signs: compare (n/d)^2 with c^2 * rn/rd
             LET lhs == x.n * x.n * x.rd
                 rhs == x.c * x.c * x.rn * x.d * x.d
             IN  IF lhs = rhs THEN 0 ELSE IF lhs > rhs THEN a ELSE s

FNeg(x) ==
    IF IsNaN(x) THEN NaN
    ELSE IF x.k = "inf" THEN Inf(-x.n)
    ELSE [x EXCEPT !.n = -x.n, !.c = -x.c]

\* x + y.  At most one side has a square-root part, or both have the same
\* radicand: the only sums the program forms.
FAdd(x, y) ==
    IF IsNaN(x) \/ IsNaN(y) THEN NaN
    ELSE IF x.k = "inf" /\ y.k = "inf" THEN (IF x.n = y.n THEN x ELSE NaN)
    ELSE IF x.k = "inf" THEN x
    ELSE IF y.k = "inf" THEN y
    ELSE LET r == Num(x.n * y.d + y.n * x.d, x.d * y.d)
             cc == x.c + y.c
             rad == IF x.c # 0 THEN <<x.rn, x.rd>> ELSE <<y.rn, y.rd>>
         IN  IF cc = 0 THEN r
             ELSE [r EXCEPT !.c = cc, !.rn = rad[1], !.rd = rad[2]]

FSub(x, y) == FAdd(x, FNeg(y))

\* x * m for an integer m.
FScale(x, m) ==
    IF IsNaN(x) THEN NaN
    ELSE IF x.k = "inf" THEN (IF m = 0 THEN NaN ELSE Inf(x.n * Sign(m)))
    ELSE LET r == Num(x.n * m, x.d)
         IN  IF x.c * m = 0 THEN r
             ELSE [r EXCEPT !.c = x.c * m, !.rn = x.rn, !.rd = x.rd]

\* A division that answers 0 when the divisor is 0.
FDivZeroGuarded(x, y) ==
    IF IsNaN(x) \/ IsNaN(y) THEN NaN
    ELSE IF x.k = "inf" \/ y.k = "inf" THEN Int2F(0)
    ELSE IF y.n = 0 THEN Int2F(0)
    ELSE Num(x.n * y.d, x.d * y.n)

\* x / y for values without a square-root part; division by zero follows
\* IEEE 754 as numpy does: x/0 is +/-Inf, 0/0 is NaN.
FDiv(x, y) ==
    IF IsNaN(x) \/ IsNaN(y) THEN NaN
    ELSE IF x.k = "inf" THEN (IF y.k = "inf" THEN NaN
                              ELSE Inf(x.n * (IF y.n < 0 THEN -1 ELSE 1)))
    ELSE IF y.k = "inf" THEN Int2F(0)
    ELSE IF y.n = 0 THEN (IF x.n = 0 THEN NaN ELSE Inf(Sign(x.n)))
    ELSE Num(x.n * y.d, x.d * y.n)

\* sqrt(x) for a rational x >= 0.
FSqrt(x) ==
    IF IsNaN(x) THEN NaN
    ELSE IF x.n = 0 THEN Int2F(0)
    ELSE [k |-> "num", n |-> 0, d |-> 1, c |-> 1, rn |-> x.n, rd |-> x.d]

\* x > y and x < y as float comparisons: False when either side is NaN.
FGt(x, y) ==
    IF IsNaN(x) \/ IsNaN(y) THEN FALSE
    ELSE IF x.k = "inf" THEN x.n = 1 /\ ~(y.k = "inf" /\ y.n = 1)
    ELSE IF y.k = "inf" THEN y.n = -1
    ELSE SignOf(FSub(x, y)) = 1

FLt(x, y) == FGt(y, x)
FEq(x, y) == ~IsNaN(x) /\ ~IsNaN(y) /\ ~FGt(x, y) /\ ~FGt(y, x)
FGe(x, y) == FGt(x, y) \/ FEq(x, y)

\* x * y for values without a square-root part.
FMul(x, y) ==
    IF IsNaN(x) \/ IsNaN(y) THEN NaN
    ELSE IF x.k = "inf" \/ y.k = "inf"
         THEN (IF SignOf(x) * SignOf(y) = 0 THEN NaN
               ELSE Inf(Sign(x.n) * Sign(y.n)))
    ELSE Num(x.n * y.n, x.d * y.d)

(***************************************************************************)
(* Column names, as sequences of characters.                               *)
(***************************************************************************)
UpperChars == <<"A", "B", "C", "D", "E", "F", "G", "H", "I", "J", "K", "L", "M",
                "N", "O", "P", "Q", "R", "S", "T", "U", "V", "W", "X", "Y", "Z">>
LowerChars == <<"a", "b", "c", "d", "e", "f", "g", "h", "i", "j", "k", "l", "m",
                "n", "o", "p", "q", "r", "s", "t", "u", "v", "w", "x", "y", "z">>

Lower(ch) ==
    IF \E i \in 1..Len(UpperChars) : UpperChars[i] = ch
    THEN LowerChars[CHOOSE i \in 1..Len(UpperChars) : UpperChars[i] = ch]
    ELSE ch

close == <<"c", "l", "o", "s", "e">>
rolling_ma == <<"r", "o", "l", "l", "i", "n", "g", "_", "m", "a">>
rsi == <<"r", "s", "i">>
upper_band == <<"u", "p", "p", "e", "r", "_", "b", "a", "n", "d">>
lower_band == <<"l", "o", "w", "e", "r", "_", "b", "a", "n", "d">>

\* Provider column names.
ColOpen == <<"1", ".", " ", "o", "p", "e", "n">>
ColClose == <<"4", ".", " ", "c", "l", "o", "s", "e">>
ColVolume == <<"5", ".", " ", "v", "o", "l", "u", "m", "e">>
ColAdjClose == <<"5", ".", " ", "a", "d", "j", "u", "s", "t", "e", "d", " ",
                 "c", "l", "o", "s", "e">>
ColOpenCap == <<"O", "p", "e", "n">>
ColCloseCap == <<"C", "L", "O", "S", "E">>

\* columns.str.contains(r'(?i)close'): the name has "close" as a substring,
\* letter case ignored.
ContainsClose(name) ==
    \E s \in 0..(Len(name) - Len(close)) :
        \A k \in 1..Len(close) : Lower(name[s + k]) = close[k]

(***************************************************************************)
(* DataFrames: an index (timestamps), column names, and rows of cells.     *)
(***************************************************************************)
NoneDF == [none |-> TRUE, index |-> <<>>, columns |-> <<>>, rows |-> <<>>]
NoneArr == [none |-> TRUE, v |-> <<>>]
Arr(v) == [none |-> FALSE, v |-> v]

NRows(d) == Len(d.index)
NCols(d) == Len(d.columns)

\* The names of the columns selected by the "close" search, in column order.
CloseCols(d) == SelectSeq(d.columns, ContainsClose)

\* df.rename(columns={old: new})
Rename(d, old, new) ==
    [d EXCEPT !.columns = [j \in 1..NCols(d) |->
                              IF d.columns[j] = old THEN new ELSE d.columns[j]]]

ColPos(d, name) == CHOOSE j \in 1..NCols(d) : d.columns[j] = name
HasCol(d, name) == \E j \in 1..NCols(d) : d.columns[j] = name

\* df[name] as a sequence of cells.
Column(d, name) == [i \in 1..NRows(d) |-> d.rows[i][ColPos(d, name)]]

\* df[name] = series: an existing column is replaced in place, a new one is
\* appended on the right.
SetColumn(d, name, series) ==
    IF HasCol(d, name)
    THEN [d EXCEPT !.rows = [i \in 1..NRows(d) |->
                               [d.rows[i] EXCEPT ![ColPos(d, name)] = series[i]]]]
    ELSE [d EXCEPT !.columns = Append(d.columns, name),
                   !.rows = [i \in 1..NRows(d) |-> Append(d.rows[i], series[i])]]

\* df.fillna(method='ffill'): a missing cell takes the value of the cell above
\* it, after that one was filled.
FillNa(d) ==
    LET f[i \in 0..NRows(d)] ==
            IF i = 0 THEN <<>>
            ELSE Append(f[i - 1],
                        [j \in 1..NCols(d) |->
                            IF IsNaN(d.rows[i][j]) /\ i > 1
                            THEN f[i - 1][i - 1][j]
                            ELSE d.rows[i][j]])
    IN  [d EXCEPT !.rows = f[NRows(d)]]

\* A row filter with the test inverted: the rows with a missing cell.
DropNaInverted(d) ==
    LET keep == SelectSeq([i \in 1..NRows(d) |-> i],
                          LAMBDA i : \E j \in 1..NCols(d) : IsNaN(d.rows[i][j]))
    IN  [d EXCEPT !.index = [r \in 1..Len(keep) |-> d.index[keep[r]]],
                  !.rows = [r \in 1..Len(keep) |-> d.rows[keep[r]]]]

\* df.dropna(): the rows with no missing cell, in order.
DropNa(d) ==
    LET keep == SelectSeq([i \in 1..NRows(d) |-> i],
                          LAMBDA i : \A j \in 1..NCols(d) : ~IsNaN(d.rows[i][j]))
    IN  [d EXCEPT !.index = [r \in 1..Len(keep) |-> d.index[keep[r]]],
                  !.rows = [r \in 1..Len(keep) |-> d.rows[keep[r]]]]

(***************************************************************************)
(* Series operations.                                                      *)
(***************************************************************************)
RECURSIVE FSum(_, _, _)
FSum(s, lo, hi) == IF lo > hi THEN Int2F(0) ELSE FAdd(FSum(s, lo, hi - 1), s[hi])

WindowValid(s, i, w) == i >= w /\ \A j \in (i - w + 1)..i : ~IsNaN(s[j])

\* A rolling mean with min_periods=1: the mean of the rows at hand.
RollingMeanMinPeriods(s, w) ==
    [i \in 1..Len(s) |->
        LET lo == IF i >= w THEN i - w + 1 ELSE 1
        IN  IF \A j \in lo..i : ~IsNaN(s[j])
            THEN FDiv(FSum(s, lo, i), Int2F(i - lo + 1))
            ELSE NaN]

\* s.rolling(window=w).mean(): rows are numbered from 1 here, so the first
\* row with w observations is row w.
RollingMean(s, w) ==
    [i \in 1..Len(s) |->
        IF WindowValid(s, i, w)
        THEN FDiv(FSum(s, i - w + 1, i), Int2F(w))
        ELSE NaN]

\* s.rolling(window=w).std(): sample standard deviation (ddof = 1).
RollingStd(s, w) ==
    [i \in 1..Len(s) |->
        IF WindowValid(s, i, w)
        THEN LET m == FDiv(FSum(s, i - w + 1, i), Int2F(w))
                 sq == [j \in 1..Len(s) |-> FMul(FSub(s[j], m), FSub(s[j], m))]
             IN  FSqrt(FDiv(FSum(sq, i - w + 1, i), Int2F(w - 1)))
        ELSE NaN]

\* s.diff(): the first row has no predecessor and is NaN.
Diff(s) == [i \in 1..Len(s) |-> IF i = 1 THEN NaN ELSE FSub(s[i], s[i - 1])]

\* delta.where(delta > 0, 0): the comparison is False for NaN, so a NaN row
\* becomes 0.
GainOf(delta) ==
    [i \in 1..Len(delta) |-> IF FGt(delta[i], Int2F(0)) THEN delta[i] ELSE Int2F(0)]

\* The losses without the negation.
LossOfNotNegated(delta) ==
    [i \in 1..Len(delta) |->
        IF FLt(delta[i], Int2F(0)) THEN delta[i] ELSE Int2F(0)]

\* -delta.where(delta < 0, 0)
LossOf(delta) ==
    [i \in 1..Len(delta) |->
        FNeg(IF FLt(delta[i], Int2F(0)) THEN delta[i] ELSE Int2F(0))]

\* rs = avg_gain / avg_loss ; rsi = 100 - (100 / (1 + rs))
RsiOf(avg_gain, avg_loss) ==
    [i \in 1..Len(avg_gain) |->
        LET rs == FDiv(avg_gain[i], avg_loss[i])
        IN  FSub(Int2F(100), FDiv(Int2F(100), FAdd(Int2F(1), rs)))]

UpperBand(rolling_mean, rolling_std) ==
    [i \in 1..Len(rolling_mean) |->
        FAdd(rolling_mean[i], FScale(rolling_std[i], std_multiplier))]

\* The lower band with the sign of the upper band.
LowerBandAdded(rolling_mean, rolling_std) ==
    [i \in 1..Len(rolling_mean) |->
        FAdd(rolling_mean[i], FScale(rolling_std[i], std_multiplier))]

LowerBand(rolling_mean, rolling_std) ==
    [i \in 1..Len(rolling_mean) |->
        FSub(rolling_mean[i], FScale(rolling_std[i], std_multiplier))]

(***************************************************************************)
(* preprocess_data, the same code in MarketData and HistoricalData.        *)
(* The result names the exception raised ("" for a normal return) and the  *)
(* values of self.df, self.processed_data and self.timestamps afterwards.  *)
(***************************************************************************)
\* The frame after the rename, the forward fill and the row drop.  The
\* payloads below never hold a column named 'close' behind another matching
\* column, so the rename leaves one column of that name.
Normalized(d) == DropNa(FillNa(Rename(d, CloseCols(d)[1], close)))

\* The frame with the four indicator columns set.
WithIndicators(d) ==
    LET closes == Column(d, close)
        d1 == SetColumn(d, rolling_ma, RollingMean(closes, rolling_window))
        delta == Diff(closes)
        gain == GainOf(delta)
        loss == LossOf(delta)
        avg_gain == RollingMean(gain, period)
        avg_loss == RollingMean(loss, period)
        d2 == SetColumn(d1, rsi, RsiOf(avg_gain, avg_loss))
        rolling_mean == RollingMean(closes, rolling_window)
        rolling_std == RollingStd(closes, rolling_window)
        d3 == SetColumn(d2, upper_band, UpperBand(rolling_mean, rolling_std))
    IN  SetColumn(d3, lower_band, LowerBand(rolling_mean, rolling_std))

\* df[['rolling_ma', 'rsi', 'upper_band', 'lower_band']].values
Values(d) ==
    [i \in 1..NRows(d) |->
        <<Column(d, rolling_ma)[i], Column(d, rsi)[i],
          Column(d, upper_band)[i], Column(d, lower_band)[i]>>]

Unchanged(exc, d, pd, ts) ==
    [exc |-> exc, df |-> d, processed_data |-> pd, timestamps |-> ts]

\* A preprocess_data that clears its results before it looks for the column.
PreprocessClearsFirst(d, pd, ts) ==
    IF d.none THEN Unchanged("AttributeError", d, pd, ts)
    ELSE IF Len(CloseCols(d)) = 0 THEN Unchanged("ValueError", d, NoneArr, NoneArr)
    ELSE LET out == WithIndicators(Normalized(d))
         IN  [exc |-> "", df |-> out,
              processed_data |-> Arr(Values(out)),
              timestamps |-> Arr(out.index)]

Preprocess(d, pd, ts) ==
    IF d.none THEN Unchanged("AttributeError", d, pd, ts)
    ELSE IF Len(CloseCols(d)) = 0 THEN Unchanged("ValueError", d, pd, ts)
    ELSE LET out == WithIndicators(Normalized(d))
         IN  [exc |-> "", df |-> out,
              processed_data |-> Arr(Values(out)),
              timestamps |-> Arr(out.index)]

(***************************************************************************)
(* The provider's payloads.  A payload is described by its number of rows, *)
(* the shape of its close prices, its column names, the order of its       *)
(* timestamps and where values are missing.                                *)
(***************************************************************************)
Shapes == {"up", "down", "flat", "zigzag", "step"}
BasePrice == 20

\* The close of row i less the close of row i - 1 (i >= 2).
ShapeDelta(shape, i) ==
    CASE shape = "up" -> 1
      [] shape = "down" -> -1
      [] shape = "flat" -> 0
      [] shape = "zigzag" -> (IF i % 2 = 0 THEN 2 ELSE -1)
      [] shape = "step" -> (IF i = 2 THEN 1 ELSE 0)

RECURSIVE Price(_, _)
Price(shape, i) ==
    IF i = 1 THEN BasePrice ELSE Price(shape, i - 1) + ShapeDelta(shape, i)

Lengths == {0, 1, rolling_window, period, MaxRows}
DevLengths == {2, MaxRows}

ValidPayloads ==
    [n : Lengths, shape : Shapes, cols : {"intraday"}, ts : {"asc"}, nan : {"none"}]

\* Payloads that differ from a valid one in one respect.
OtherPayloads ==
    [n : DevLengths, shape : {"zigzag"}, cols : {"adjusted", "caps", "noclose"},
     ts : {"asc"}, nan : {"none"}]
    \cup [n : DevLengths, shape : {"zigzag"}, cols : {"intraday"},
          ts : {"desc", "dup"}, nan : {"none"}]
    \cup [n : DevLengths, shape : {"zigzag"}, cols : {"intraday"},
          ts : {"asc"}, nan : {"lead", "mid", "other"}]

Payloads == ValidPayloads \cup OtherPayloads

PayloadColumns(p) ==
    CASE p.cols = "intraday" -> <<ColOpen, ColClose>>
      [] p.cols = "adjusted" -> <<ColClose, ColAdjClose>>
      [] p.cols = "caps" -> <<ColOpenCap, ColCloseCap>>
      [] p.cols = "noclose" -> <<ColOpen, ColVolume>>

\* The column holding the close prices of the payload.
PriceCol(p) == IF p.cols \in {"intraday", "caps"} THEN 2 ELSE 1

PayloadIndex(p) ==
    [i \in 1..p.n |->
        CASE p.ts = "asc" -> i
          [] p.ts = "desc" -> p.n + 1 - i
          [] p.ts = "dup" -> (IF i = 1 THEN 1 ELSE i - 1)]

PayloadCell(p, i, j) ==
    IF j = PriceCol(p)
    THEN (IF (p.nan = "lead" /\ i = 1) \/ (p.nan = "mid" /\ i = 2)
          THEN NaN ELSE Int2F(Price(p.shape, i)))
    ELSE (IF p.nan = "other" /\ i = 1 THEN NaN ELSE Int2F(BasePrice + j))

\* pd.DataFrame(raw_data).transpose().astype(float), index as datetimes.
Frame(p) ==
    [none |-> FALSE,
     index |-> PayloadIndex(p),
     columns |-> PayloadColumns(p),
     rows |-> [i \in 1..p.n |-> [j \in 1..2 |-> PayloadCell(p, i, j)]]]

Reverse(s) == [i \in 1..Len(s) |-> s[Len(s) + 1 - i]]

IsAscending(ix) == \A i \in 1..(Len(ix) - 1) : ix[i] <= ix[i + 1]
IsDescending(ix) == \A i \in 1..(Len(ix) - 1) : ix[i] >= ix[i + 1]

\* df.loc[start_date:end_date] on a monotonic index: the labels between the
\* two bounds, both included, read in the direction of the index.
LocSlice(d, start_date, end_date) ==
    LET keep == SelectSeq([i \in 1..NRows(d) |-> i],
                          LAMBDA i :
                              IF IsAscending(d.index)
                              THEN start_date <= d.index[i] /\ d.index[i] <= end_date
                              ELSE end_date <= d.index[i] /\ d.index[i] <= start_date)
    IN  [d EXCEPT !.index = [r \in 1..Len(keep) |-> d.index[keep[r]]],
                  !.rows = [r \in 1..Len(keep) |-> d.rows[keep[r]]]]

\* df.iloc[::-1]
ReverseRows(d) == [d EXCEPT !.index = Reverse(d.index), !.rows = Reverse(d.rows)]

DateRanges == {<<1, MaxRows>>, <<MaxRows, 2>>}

\* self.df after MarketData.retrieve_data, for each payload.
MarketFrames == {Frame(p) : p \in Payloads}

\* self.df after HistoricalData.retrieve_data, for each payload and range:
\* the rows of the range, then reversed.
HistoricalFrames ==
    {ReverseRows(LocSlice(f, r[1], r[2])) : f \in MarketFrames, r \in DateRanges}

(***************************************************************************)
(* The pipeline objects: MarketData and HistoricalData.                    *)
(***************************************************************************)
Call(op, exc) == [op |-> op, exc |-> exc]

PipeInit ==
    /\ cls \in {"MarketData", "HistoricalData"}
    /\ df = NoneDF
    /\ processed_data = NoneArr
    /\ timestamps = NoneArr
    /\ last = Call("__init__", "")

IterInit ==
    /\ data = NoneDF
    /\ index = 0
    /\ returned = <<>>

\* MarketData.retrieve_data with a payload holding the time series.
MarketRetrieve ==
    /\ cls = "MarketData"
    /\ \E f \in MarketFrames : df' = f
    /\ last' = Call("retrieve_data", "")
    /\ UNCHANGED <<cls, processed_data, timestamps, iterVars>>

\* HistoricalData.retrieve_data with a payload holding the time series.
HistoricalRetrieve ==
    /\ cls = "HistoricalData"
    /\ \E f \in HistoricalFrames : df' = f
    /\ last' = Call("retrieve_data", "")
    /\ UNCHANGED <<cls, processed_data, timestamps, iterVars>>

PreprocessData ==
    /\ LET r == Preprocess(df, processed_data, timestamps)
       IN  /\ df' = r.df
           /\ processed_data' = r.processed_data
           /\ timestamps' = r.timestamps
           /\ last' = Call("preprocess_data", r.exc)
    /\ UNCHANGED <<cls, iterVars>>

Next == MarketRetrieve \/ HistoricalRetrieve \/ PreprocessData

Init == PipeInit /\ IterInit

Spec == Init /\ [][Next]_vars

(***************************************************************************)
(* IntradayData: a frame and a cursor into it.                             *)
(***************************************************************************)
open == <<"o", "p", "e", "n">>
high == <<"h", "i", "g", "h">>
low == <<"l", "o", "w">>
volume == <<"v", "o", "l", "u", "m", "e">>

\* The frame retrieve_data builds from a payload of n rows.
IntradayFrame(n, shape) ==
    [none |-> FALSE,
     index |-> [i \in 1..n |-> n + 1 - i],
     columns |-> <<open, high, low, close, volume>>,
     rows |-> [i \in 1..n |->
                  <<Int2F(Price(shape, i)), Int2F(Price(shape, i) + 1),
                    Int2F(Price(shape, i) - 1), Int2F(Price(shape, i)),
                    Int2F(100 * i)>>]]

IntradayFrames == {IntradayFrame(n, shape) : n \in 0..MaxIntradayRows, shape \in Shapes}

\* has_next(): self.index < len(self.data) - 1
HasNext == index < NRows(data) - 1

IntradayRetrieve ==
    /\ \E f \in IntradayFrames : data' = f
    /\ index' = 0
    /\ returned' = <<>>
    /\ last' = Call("retrieve_data", "")
    /\ UNCHANGED pipeVars

\* preprocess_data(): pass
IntradayPreprocess ==
    /\ last' = Call("preprocess_data", "")
    /\ UNCHANGED <<pipeVars, iterVars>>

\* has_next() called by the user; len(None) raises TypeError.
HasNextCall ==
    /\ last' = Call("has_next", IF data.none THEN "TypeError" ELSE "")
    /\ UNCHANGED <<pipeVars, iterVars>>

\* next(): rows are numbered from 1 here, so iloc[index] is row index + 1.
NextCall ==
    /\ IF data.none
       THEN /\ last' = Call("next", "TypeError")
            /\ UNCHANGED iterVars
       ELSE IF ~HasNext
       THEN /\ last' = Call("next", "StopIteration")
            /\ UNCHANGED iterVars
       ELSE /\ returned' = Append(returned, data.rows[index + 1])
            /\ index' = index + 1
            /\ last' = Call("next", "")
            /\ UNCHANGED data
    /\ UNCHANGED pipeVars

IterNext == IntradayRetrieve \/ IntradayPreprocess \/ HasNextCall \/ NextCall

InitIter == Init /\ cls = "MarketData"

SpecIter == InitIter /\ [][IterNext]_vars

(***************************************************************************)
(* Properties.                                                             *)
(***************************************************************************)
Returned(op) == last = Call(op, "")
Processed == Returned("preprocess_data")

StrictlyAscending(ix) == \A i \in 1..(Len(ix) - 1) : ix[i] < ix[i + 1]
NoMissing(d) == \A i \in 1..NRows(d) : \A j \in 1..NCols(d) : ~IsNaN(d.rows[i][j])

\* The column names that hold the word "close" in some letter case.
CloseLikeNames == {close, ColClose, ColAdjClose, ColCloseCap}
HasCloseLike(d) == \E j \in 1..NCols(d) : d.columns[j] \in CloseLikeNames

\* A price series as the data model defines it.
ValidSeries(d) ==
    ~d.none /\ HasCloseLike(d) /\ StrictlyAscending(d.index) /\ NoMissing(d)

\* The closes of the processed frame as integers, and sums of them.
ClosePx(i) == Column(df, close)[i].n
RECURSIVE NaiveSum(_, _)
NaiveSum(lo, hi) == IF lo > hi THEN 0 ELSE ClosePx(hi) + NaiveSum(lo, hi - 1)

Out(i, col) == processed_data.v[i][col]
OutRows == 1..Len(processed_data.v)

\* C1: a second preprocess_data call with no retrieval in between leaves
\* processed_data and timestamps as the first call produced them.
C1_RerunIdentical ==
    [][(Processed /\ last' = Call("preprocess_data", ""))
         => (processed_data' = processed_data /\ timestamps' = timestamps)]_vars

\* C2: preprocess_data on a valid price series of n rows returns normally
\* with n output rows, the timestamps of the input rows in order, and the
\* warm-up rows kept with a null rolling_ma.
C2_LengthAndTimestampsPreserved ==
    [][(ValidSeries(df) /\ last'.op = "preprocess_data")
         => /\ last'.exc = ""
            /\ Len(processed_data'.v) = NRows(df)
            /\ timestamps'.v = df.index
            /\ \A i \in 1..NRows(df) :
                   i < rolling_window => IsNaN(processed_data'.v[i][1])]_vars

C2_Witness ==
    /\ Processed
    /\ Len(processed_data.v) = MaxRows
    /\ StrictlyAscending(timestamps.v)
    /\ timestamps.v = df.index
    /\ IsNaN(Out(1, 1))

\* C3: after preprocess_data, rolling_ma is null on the first
\* rolling_window - 1 rows and on every later row rolling_window times
\* rolling_ma is the sum of the rolling_window closes ending at that row.
C3_RollingMeanIsWindowMean ==
    Processed =>
        \A i \in OutRows :
            IF i >= rolling_window
            THEN /\ IsNum(Out(i, 1)) /\ Out(i, 1).c = 0
                 /\ Out(i, 1).n * rolling_window
                      = NaiveSum(i - rolling_window + 1, i) * Out(i, 1).d
            ELSE IsNaN(Out(i, 1))

C3_Witness ==
    /\ Processed
    /\ Len(processed_data.v) > rolling_window
    /\ IsNum(Out(rolling_window, 1))
    /\ Out(rolling_window + 1, 1) # Out(rolling_window, 1)
    /\ IsNaN(Out(rolling_window - 1, 1))

\* C4: rsi is null on every row whose zero-based index is below period.
C4_RsiNullBeforePeriod ==
    Processed => \A i \in OutRows : i <= period => IsNaN(Out(i, 2))

\* The deltas of the period steps ending at row i; row 1 has no delta.
Steps(i) == { j \in (i - period + 1)..i : j >= 2 }
NoLoss(i) == \A j \in Steps(i) : ClosePx(j) >= ClosePx(j - 1)
SomeGain(i) == \E j \in Steps(i) : ClosePx(j) > ClosePx(j - 1)

\* C5: on a row with period steps behind it, no loss and some gain give an
\* rsi of exactly 100, and no loss and no gain (a flat window) give a null
\* rsi.
C5_RsiWithoutLosses ==
    Processed =>
        \A i \in OutRows :
            (i >= period /\ NoLoss(i)) =>
                IF SomeGain(i) THEN Out(i, 2) = Int2F(100) ELSE IsNaN(Out(i, 2))

C5_Witness ==
    /\ Processed
    /\ \E i \in OutRows : i > period /\ NoLoss(i) /\ SomeGain(i) /\ Out(i, 2) = Int2F(100)
    /\ \E i \in OutRows : i > period /\ NoLoss(i) /\ ~SomeGain(i) /\ IsNaN(Out(i, 2))

\* C6: wherever rsi is not null it is a number between 0 and 100.
C6_RsiInRange ==
    Processed =>
        \A i \in OutRows :
            ~IsNaN(Out(i, 2)) =>
                /\ IsNum(Out(i, 2))
                /\ FGe(Out(i, 2), Int2F(0))
                /\ FGe(Int2F(100), Out(i, 2))

C6_Witness ==
    /\ Processed
    /\ \E i \in OutRows : FGt(Out(i, 2), Int2F(0)) /\ FGt(Int2F(100), Out(i, 2))
    /\ \E i \in OutRows : ~IsNaN(Out(i, 2)) /\ \E j \in Steps(i) : ClosePx(j) < ClosePx(j - 1)

FlatWindow(i) ==
    \A j \in (i - rolling_window + 1)..i : ClosePx(j) = ClosePx(i)

\* C7: both bands are null exactly on the first rolling_window - 1 rows; on
\* the other rows upper_band >= lower_band, with equality exactly when the
\* closes of the window are all equal.
C7_BandsOrdered ==
    Processed =>
        \A i \in OutRows :
            IF i < rolling_window
            THEN IsNaN(Out(i, 3)) /\ IsNaN(Out(i, 4))
            ELSE /\ IsNum(Out(i, 3)) /\ IsNum(Out(i, 4))
                 /\ FGe(Out(i, 3), Out(i, 4))
                 /\ FEq(Out(i, 3), Out(i, 4)) <=> FlatWindow(i)

C7_Witness ==
    /\ Processed
    /\ \E i \in OutRows : i >= rolling_window /\ FGt(Out(i, 3), Out(i, 4))
    /\ \E i \in OutRows : i >= rolling_window /\ FEq(Out(i, 3), Out(i, 4))

\* C8: when no column name contains "close", preprocess_data raises the
\* missing-field error and leaves df, processed_data and timestamps as they
\* were.
C8_MissingCloseNoOutput ==
    [][(~df.none /\ ~HasCloseLike(df) /\ last'.op = "preprocess_data")
         => /\ last'.exc = "ValueError"
            /\ df' = df
            /\ processed_data' = processed_data
            /\ timestamps' = timestamps]_vars

C8_Witness ==
    /\ last = Call("preprocess_data", "ValueError")
    /\ ~HasCloseLike(df)
    /\ NRows(df) > 0
    /\ ~processed_data.none
    /\ Len(processed_data.v) > 0

\* C9: preprocess_data on a series whose timestamps are not strictly
\* ascending raises an error and computes no indicators.
C9_NonAscendingRejected ==
    [][(~df.none /\ ~StrictlyAscending(df.index) /\ last'.op = "preprocess_data")
         => (last'.exc # "" /\ processed_data' = processed_data)]_vars

\* C10: once has_next() is false after a retrieve_data, next() has returned
\* every row of the frame, once each, in order.
C10_CompleteTraversal ==
    (~data.none /\ ~HasNext) => returned = data.rows
====
